---- MODULE Spec2Model ----
(***************************************************************************)
(* The Focus/Break session timer of src/src/components/Timer.tsx, as the   *)
(* state machine React runs: the five useState cells of the component, the *)
(* closures that its two effects and its one-shot timeout capture, and one *)
(* action per event handler or timer callback.  A handler runs to          *)
(* completion, its state updates are applied together, the component       *)
(* re-renders and the effects whose dependencies changed run again; all of *)
(* that is one step here.  State updaters run once per update (production  *)
(* React, no StrictMode double invocation).                                *)
(*                                                                         *)
(* Around the Timer: the session log of Dashboard (src/unnamed/part_000),  *)
(* the props MusicControls is given, the task list of TaskManager and the  *)
(* streak loop of Analytics, each with its own specification.              *)
(***************************************************************************)
EXTENDS Integers, Naturals, Sequences, FiniteSets, TLC

VARIABLES
    timeLeft,      \* useState(25 * 60)
    isRunning,     \* useState(false)
    sessionType,   \* useState('focus')
    sessionCount,  \* useState(0)
    startTime,     \* useState<Date | null>(null)
    mounted,       \* the component instance is in the tree
    interval,      \* the setInterval of the tick effect: None or the values its closure captured
    nIntervals,    \* the number of setInterval timers that were created and not cleared
    pending,       \* the setTimeout of the completion branch: None or the values its switchSession captured
    kbd,           \* the values captured by the keydown handler that is currently registered
    lastOp,        \* observer: the handler or callback that ran last
    emitted,       \* observer: the session handed to onSessionComplete by the last step, or NoSession
    ticks,         \* observer of SpecRun: interval callbacks run so far
    nEvents,       \* observer of SpecRun: onSessionComplete calls so far
    nTransitions,  \* observer of SpecCadence: Focus -> Break transitions so far
    \* Dashboard
    sessions,         \* useState<Session[]>([])
    isTimerRunning,   \* useState(false)
    dashSessionType,  \* Dashboard's own useState('focus'), named sessionType there
    storage,          \* localStorage item 'focus-app-sessions'
    dashPhase,        \* where Dashboard is in its mount sequence
    queued,           \* the setSessions of the load effect that waits for the re-render
    stored0,          \* observer: the item as it was when Dashboard mounted
    received,         \* observer: the argument of the last handleSessionComplete call
    dashOp,           \* observer: the Dashboard effect or handler that ran last
    \* MusicControls
    currentPlaylist,  \* useState(sessionType === 'focus' ? 'lo-fi' : 'upbeat')
    \* TaskManager
    tasks,            \* useState<Task[]>([])
    newTaskTitle,     \* useState('')
    nextId,           \* the ids crypto.randomUUID() has not returned yet start here
    taskOp,           \* observer: the TaskManager handler that ran last
    notified,         \* observer: the arguments of the onTaskComplete calls of the last step
    \* Analytics, the streak loop of its mount effect
    allSessions,      \* const allSessions: JSON.parse of the stored item
    today,            \* the clock when the effect runs
    checkDate,        \* const checkDate = new Date()
    streak,           \* let streak = 0
    pc                \* where the effect is: "loop" or "done"

dashboardVars == <<sessions, isTimerRunning, dashSessionType, storage, dashPhase,
                   queued, stored0, received, dashOp>>

taskVars == <<tasks, newTaskTitle, nextId, taskOp, notified>>

analyticsVars == <<allSessions, today, checkDate, streak, pc>>

\* The state of the components around the Timer.
others == <<dashboardVars, currentPlaylist, taskVars, analyticsVars>>

timerVars == <<timeLeft, isRunning, sessionType, sessionCount, startTime, mounted,
               interval, nIntervals, pending, kbd, lastOp, emitted>>

observers == <<ticks, nEvents, nTransitions>>

vars == <<timerVars, observers, others>>

\* null, for startTime.
Null == 0

\* No closure: no interval, no timeout.
None == [isRunning |-> FALSE, sessionType |-> "none", sessionCount |-> 0, startTime |-> Null]

\* No session was handed to onSessionComplete.
NoSession == [type |-> "none", duration |-> 0, timestamp |-> Null]

\* Bound of the model: the readings new Date() can return.
MaxDate == 2

\* The values of new Date(): what the wall clock reads when startTimer runs.
Dates == 1..MaxDate

\* Bound of the model: switchSession's Focus branch is not taken once
\* sessionCount has reached it.
MaxSessionCount == 8

focusDuration == 25 * 60

breakDuration == 5 * 60

longBreakDuration == 15 * 60

\* Dashboard always passes handleSessionComplete to Timer.
onSessionComplete == TRUE

\* The TimerState a handler reads and writes.
State ==
    [timeLeft |-> timeLeft, isRunning |-> isRunning, sessionType |-> sessionType,
     sessionCount |-> sessionCount, startTime |-> startTime]

\* What a closure created during a render sees of that render's state.
Closure(s) ==
    [isRunning |-> s.isRunning, sessionType |-> s.sessionType,
     sessionCount |-> s.sessionCount, startTime |-> s.startTime]

\* const isLongBreak = sessionCount > 0 && (sessionCount + 1) % 4 === 0
isLongBreak(count) == count > 0 /\ (count + 1) % 4 = 0

\* The total of getProgress and the duration of the completion branch:
\* sessionType === 'focus' ? focusDuration :
\*   sessionCount > 0 && sessionCount % 4 === 0 ? longBreakDuration : breakDuration
totalTime(type, count) ==
    IF type = "focus" THEN focusDuration
    ELSE IF count > 0 /\ count % 4 = 0 THEN longBreakDuration ELSE breakDuration

\* getProgress of the current render, in whole percent (rounded down):
\* ((totalTime - timeLeft) / totalTime) * 100
getProgress ==
    ((totalTime(sessionType, sessionCount) - timeLeft) * 100)
        \div totalTime(sessionType, sessionCount)

startTimer_noStamp(c, s, d) == [s EXCEPT !.isRunning = TRUE]

startTimer_restamps(c, s, d) == [s EXCEPT !.isRunning = TRUE, !.startTime = d]

\* startTimer as the closure c (of the render that created it) runs it on
\* state s while the clock reads d.
startTimer(c, s, d) ==
    [s EXCEPT !.isRunning = TRUE,
              !.startTime = IF c.startTime = Null THEN d ELSE s.startTime]

pauseTimer_clearsStart(s) == [s EXCEPT !.isRunning = FALSE, !.startTime = Null]

pauseTimer(s) == [s EXCEPT !.isRunning = FALSE]

resetTimer_toFocus(c, s) ==
    [s EXCEPT !.isRunning = FALSE,
              !.timeLeft = focusDuration,
              !.sessionType = "focus",
              !.startTime = Null]

resetTimer_keepsStart(c, s) ==
    [s EXCEPT !.isRunning = FALSE,
              !.timeLeft = IF c.sessionType = "focus" THEN focusDuration ELSE breakDuration]

resetTimer(c, s) ==
    [s EXCEPT !.isRunning = FALSE,
              !.timeLeft = IF c.sessionType = "focus" THEN focusDuration ELSE breakDuration,
              !.startTime = Null]

switchSession_oneWay(c, s) ==
    IF c.sessionType = "focus"
    THEN [s EXCEPT !.sessionType = "break",
                   !.timeLeft = IF isLongBreak(c.sessionCount) THEN longBreakDuration
                                ELSE breakDuration,
                   !.sessionCount = s.sessionCount + 1,
                   !.isRunning = FALSE,
                   !.startTime = Null]
    ELSE [s EXCEPT !.isRunning = FALSE,
                   !.startTime = Null]

switchSession_keepsRunning(c, s) ==
    IF c.sessionType = "focus"
    THEN [s EXCEPT !.sessionType = "break",
                   !.timeLeft = IF isLongBreak(c.sessionCount) THEN longBreakDuration
                                ELSE breakDuration,
                   !.sessionCount = s.sessionCount + 1,
                   !.startTime = Null]
    ELSE [s EXCEPT !.sessionType = "focus",
                   !.timeLeft = focusDuration,
                   !.startTime = Null]

\* switchSession as the closure c runs it on state s: sessionType and
\* sessionCount are read from the closure, setSessionCount(prev => prev + 1)
\* from the state.
switchSession(c, s) ==
    IF c.sessionType = "focus"
    THEN [s EXCEPT !.sessionType = "break",
                   !.timeLeft = IF isLongBreak(c.sessionCount) THEN longBreakDuration
                                ELSE breakDuration,
                   !.sessionCount = s.sessionCount + 1,
                   !.isRunning = FALSE,
                   !.startTime = Null]
    ELSE [s EXCEPT !.sessionType = "focus",
                   !.timeLeft = focusDuration,
                   !.isRunning = FALSE,
                   !.startTime = Null]

completes_late(prev) == prev <= 0

\* if (prev <= 1)
completes(prev) == prev <= 1

decrement_two(prev) == prev - 2

decrement_up(prev) == prev + 1

\* return prev - 1
decrement(prev) == prev - 1

reports_never(c) == FALSE

\* if (startTime && onSessionComplete)
reports(c) == c.startTime # Null /\ onSessionComplete

\* The argument of onSessionComplete in the completion branch.
session(c, prev) ==
    [type |-> c.sessionType,
     duration |-> totalTime(c.sessionType, c.sessionCount) - prev,
     timestamp |-> c.startTime]

\* The condition under which the tick effect creates its interval.
ticking(s) == s.isRunning /\ s.timeLeft > 0

\* The dependency list of the tick effect, compared between the current
\* render and the render with state n.
tickDepsChanged(n) ==
    \/ n.isRunning # isRunning
    \/ n.timeLeft # timeLeft
    \/ n.sessionType # sessionType
    \/ n.sessionCount # sessionCount
    \/ n.startTime # startTime

cleanup_missing(k) == k

\* return () => clearInterval(interval), run on k live timers: it clears the
\* one timer that its own effect run created, if it created one.
cleanup(k) == IF interval # None THEN k - 1 ELSE k

\* The live timers after the commit of a render with state n: when a
\* dependency changed, the cleanup of the last effect run, then the new run.
intervalsAfter(n) ==
    IF tickDepsChanged(n)
    THEN cleanup(nIntervals) + (IF ticking(n) THEN 1 ELSE 0)
    ELSE nIntervals

\* The commit of a render with state n while mounted: the state cells, the
\* tick effect (its dependencies are all it reads, so a live interval always
\* holds the values of the latest render) and the keyboard effect (it runs
\* again only when isRunning or startTimer, that is startTime, changed).
Render(n) ==
    /\ timeLeft' = n.timeLeft
    /\ isRunning' = n.isRunning
    /\ sessionType' = n.sessionType
    /\ sessionCount' = n.sessionCount
    /\ startTime' = n.startTime
    /\ interval' = IF tickDepsChanged(n)
                   THEN (IF ticking(n) THEN Closure(n) ELSE None)
                   ELSE interval
    /\ nIntervals' = intervalsAfter(n)
    /\ kbd' = IF n.isRunning # isRunning \/ n.startTime # startTime
              THEN Closure(n) ELSE kbd

\* The model's bound on sessionCount: a handler may take switchSession's
\* Focus branch only if the pending automatic switch, when it captured
\* 'focus', can still take it afterwards.
Room(c) ==
    c.sessionType = "focus" =>
        sessionCount + (IF pending # None /\ pending.sessionType = "focus" THEN 1 ELSE 0)
            < MaxSessionCount

\* ---- Dashboard: the session log ----

\* localStorage.getItem of a key that was never written: null.
Absent == [present |-> FALSE, items |-> <<>>]

\* No setSessions waits for a re-render.
NoUpdate == [set |-> FALSE, value |-> <<>>]

\* What JSON.stringify writes for a Date: its ISO string.
toJSON(d) == [iso |-> d]

\* new Date(s) of an ISO string.
newDate(s) == s.iso

\* JSON.stringify(sessions), as the stored item.
stringify(list) ==
    [present |-> TRUE,
     items |-> [i \in 1..Len(list) |->
                   [type |-> list[i].type,
                    duration |-> list[i].duration,
                    timestamp |-> toJSON(list[i].timestamp)]]]

\* JSON.parse(savedSessions).map(s => ({...s, timestamp: new Date(s.timestamp)}))
parse(item) ==
    [i \in 1..Len(item.items) |->
        [item.items[i] EXCEPT !.timestamp = newDate(item.items[i].timestamp)]]

handleSessionComplete_replaces(prev, newSession) == <<newSession>>

\* setSessions(prev => [...prev, session])
handleSessionComplete(prev, newSession) == Append(prev, newSession)

\* Bound of the model: the length of the session lists.
MaxSessions == 2

\* The sessions a Timer can hand over: session(c, 1) of a running period.
SessionValues ==
    {[type |-> "focus", duration |-> focusDuration - 1, timestamp |-> d] : d \in Dates}
    \cup {[type |-> "break", duration |-> n - 1, timestamp |-> d] :
             n \in {breakDuration, longBreakDuration}, d \in Dates}

\* The session lists of up to n entries.
SessionLists(n) == UNION {[1..k -> SessionValues] : k \in 0..n}

\* Dashboard's isTimerRunning and sessionType cells; no code calls their
\* setters.
DashboardCells ==
    /\ isTimerRunning = FALSE
    /\ dashSessionType = "focus"

\* Dashboard after its mount sequence over an empty localStorage.
DashboardMounted ==
    /\ sessions = <<>>
    /\ storage = stringify(<<>>)
    /\ dashPhase = "ready"
    /\ queued = NoUpdate
    /\ stored0 = Absent
    /\ received = NoSession
    /\ dashOp = "mount"

\* ---- MusicControls ----

\* Object.keys(playlists.focus) and Object.keys(playlists.break)
playlists(type) ==
    IF type = "focus" THEN {"lo-fi", "classical", "ambient", "binaural"}
    ELSE {"upbeat", "chill", "nature"}

\* The auto-switch effect on a render with sessionType prop type and
\* selected playlist p: the playlist after the effect has settled.
autoSwitchPlaylist(type, p) ==
    IF type = "focus" /\ p \notin playlists("focus") THEN "lo-fi"
    ELSE IF type = "break" /\ p \notin playlists("break") THEN "upbeat"
    ELSE p

MusicInit ==
    currentPlaylist = IF dashSessionType = "focus" THEN "lo-fi" ELSE "upbeat"

\* ---- TaskManager ----

\* Bound of the model: the length of what is typed into the title input.
MaxTitle == 2

\* Bound of the model: the number of tasks ever added.
MaxTasks == 2

\* The characters typed: a blank and a letter.
Chars == {" ", "a"}

Titles == UNION {[1..k -> Chars] : k \in 0..MaxTitle}

RECURSIVE trimStart(_)
trimStart(t) == IF t # <<>> /\ Head(t) = " " THEN trimStart(Tail(t)) ELSE t

RECURSIVE trimEnd(_)
trimEnd(t) ==
    IF t # <<>> /\ t[Len(t)] = " " THEN trimEnd(SubSeq(t, 1, Len(t) - 1)) ELSE t

\* String.prototype.trim
trim(t) == trimEnd(trimStart(t))

\* addTask on the task list prev with the typed title and a fresh id: the
\* new list (completedAt undefined is Null; tag and createdAt, which no
\* handler reads, are left out).
addTask(prev, title, tag, id) ==
    IF trim(title) = <<>> THEN prev
    ELSE <<[id |-> id, title |-> trim(title), completed |-> FALSE, completedAt |-> Null]>>
             \o prev

toggled_keepsDate(task, d) ==
    [task EXCEPT !.completed = ~task.completed, !.completedAt = d]

\* updatedTask of toggleTask while the clock reads d.
toggled(task, d) ==
    [task EXCEPT !.completed = ~task.completed,
                 !.completedAt = IF ~task.completed THEN d ELSE Null]

\* toggleTask: prev.map(...)
toggleTask(prev, id, d) ==
    [i \in 1..Len(prev) |-> IF prev[i].id = id THEN toggled(prev[i], d) ELSE prev[i]]

\* The onTaskComplete calls of toggleTask's updater, in order.
toggleCalls(prev, id, d) ==
    LET hit(i) == prev[i].id = id /\ toggled(prev[i], d).completed
        RECURSIVE calls(_)
        calls(i) == IF i > Len(prev) THEN <<>>
                    ELSE (IF hit(i) THEN <<toggled(prev[i], d)>> ELSE <<>>) \o calls(i + 1)
    IN  calls(1)

\* deleteTask: prev.filter(task => task.id !== id)
RECURSIVE deleteTask(_, _)
deleteTask(prev, id) ==
    IF prev = <<>> THEN <<>>
    ELSE (IF Head(prev).id # id THEN <<Head(prev)>> ELSE <<>>) \o deleteTask(Tail(prev), id)

\* tasks.filter(t => t.completed) for flag TRUE, tasks.filter(t => !t.completed)
\* for flag FALSE
RECURSIVE filterCompleted(_, _)
filterCompleted(list, flag) ==
    IF list = <<>> THEN <<>>
    ELSE (IF Head(list).completed = flag THEN <<Head(list)>> ELSE <<>>)
             \o filterCompleted(Tail(list), flag)

\* const stats
stats ==
    [total |-> Len(tasks),
     completed |-> Len(filterCompleted(tasks, TRUE)),
     active |-> Len(filterCompleted(tasks, FALSE))]

\* TaskManager after its mount over an empty localStorage.
TasksInit ==
    /\ tasks = <<>>
    /\ newTaskTitle = <<>>
    /\ nextId = 1
    /\ taskOp = [op |-> "mount", id |-> 0]
    /\ notified = <<>>

\* ---- Analytics: the streak loop ----

\* Bound of the model: the instants of one calendar day.
DayLength == 2

\* Bound of the model: the calendar days 0..MaxDay.
MaxDay == 2

\* Bound of the model: the length of the stored session list Analytics reads.
MaxStored == 2

\* The instants of the days 0..MaxDay.
Instants == 0..((MaxDay + 1) * DayLength - 1)

\* d.setHours(0, 0, 0, 0): the midnight that starts the day of instant t.
setHours0(t) == t - (t % DayLength)

prevDay_stays(t) == t

\* checkDate.setDate(checkDate.getDate() - 1), on a midnight
prevDay(t) == t - DayLength

\* allSessions.some(session => sessionDate.getTime() === checkDate.getTime()
\*                             && session.type === 'focus')
hasSessionOnDate(all, cd) ==
    \E i \in 1..Len(all) :
        /\ setHours0(newDate(all[i].timestamp)) = cd
        /\ all[i].type = "focus"

\* The effect is not running.
AnalyticsIdle ==
    /\ allSessions = <<>>
    /\ today = 0
    /\ checkDate = 0
    /\ streak = 0
    /\ pc = "done"

\* The Timer after its first render.
TimerInit ==
    /\ timeLeft = 25 * 60
    /\ isRunning = FALSE
    /\ sessionType = "focus"
    /\ sessionCount = 0
    /\ startTime = Null
    /\ mounted = TRUE
    /\ interval = None
    /\ nIntervals = 0
    /\ pending = None
    /\ kbd = Closure(State)
    /\ lastOp = "mount"
    /\ emitted = NoSession
    /\ ticks = 0
    /\ nEvents = 0
    /\ nTransitions = 0

\* The Timer in a Dashboard that has mounted over an empty localStorage,
\* with TaskManager and Analytics as they are after their mount.
Init ==
    /\ TimerInit
    /\ DashboardCells
    /\ DashboardMounted
    /\ MusicInit
    /\ TasksInit
    /\ AnalyticsIdle

\* The Start/Pause button while it shows Start: onClick = startTimer.
ClickStart ==
    /\ mounted /\ ~isRunning
    /\ \E d \in Dates : Render(startTimer(Closure(State), State, d))
    /\ lastOp' = "start"
    /\ emitted' = NoSession
    /\ UNCHANGED <<mounted, pending>>

\* The Start/Pause button while it shows Pause: onClick = pauseTimer.
ClickPause ==
    /\ mounted /\ isRunning
    /\ Render(pauseTimer(State))
    /\ lastOp' = "pause"
    /\ emitted' = NoSession
    /\ UNCHANGED <<mounted, pending>>

\* The Reset button.
ClickReset ==
    /\ mounted
    /\ Render(resetTimer(Closure(State), State))
    /\ lastOp' = "reset"
    /\ emitted' = NoSession
    /\ UNCHANGED <<mounted, pending>>

\* The Switch button.
ClickSwitch ==
    /\ mounted
    /\ Room(Closure(State))
    /\ Render(switchSession(Closure(State), State))
    /\ lastOp' = "switch"
    /\ emitted' = NoSession
    /\ UNCHANGED <<mounted, pending>>

\* Ctrl/Cmd+Space: isRunning ? pauseTimer() : startTimer(), of the registered handler.
KeySpace ==
    /\ mounted
    /\ \E d \in Dates :
          Render(IF kbd.isRunning THEN pauseTimer(State) ELSE startTimer(kbd, State, d))
    /\ lastOp' = "keySpace"
    /\ emitted' = NoSession
    /\ UNCHANGED <<mounted, pending>>

\* Ctrl/Cmd+R: resetTimer() of the registered handler.
KeyR ==
    /\ mounted
    /\ Render(resetTimer(kbd, State))
    /\ lastOp' = "keyR"
    /\ emitted' = NoSession
    /\ UNCHANGED <<mounted, pending>>

\* Ctrl/Cmd+B: switchSession() of the registered handler.
KeyB ==
    /\ mounted
    /\ Room(kbd)
    /\ Render(switchSession(kbd, State))
    /\ lastOp' = "keyB"
    /\ emitted' = NoSession
    /\ UNCHANGED <<mounted, pending>>

\* One run of the interval callback.  It cannot run while an automatic
\* switch is pending: the interval was created after the completion that
\* set the timeout, both wait 1000 ms, so the timeout fires first.
IntervalFires ==
    /\ mounted
    /\ interval # None
    /\ pending = None
    /\ IF completes(timeLeft)
       THEN /\ interval.sessionType = "focus" => sessionCount < MaxSessionCount
            /\ Render([State EXCEPT !.timeLeft = 0, !.isRunning = FALSE])
            /\ emitted' = IF reports(interval) THEN session(interval, timeLeft) ELSE NoSession
            /\ pending' = interval
       ELSE /\ Render([State EXCEPT !.timeLeft = decrement(timeLeft)])
            /\ emitted' = NoSession
            /\ pending' = pending
    /\ lastOp' = "tick"
    /\ UNCHANGED mounted

\* The timeout of the completion branch fires: switchSession() of the
\* render in which the interval was created.
TimeoutFires ==
    /\ pending # None
    /\ mounted
    /\ Render(switchSession(pending, State))
    /\ pending' = None
    /\ lastOp' = "autoSwitch"
    /\ emitted' = NoSession
    /\ UNCHANGED mounted

\* The component leaves the tree: the cleanups run clearInterval and
\* removeEventListener; nothing clears the timeout.
Unmount ==
    /\ mounted
    /\ mounted' = FALSE
    /\ interval' = None
    /\ nIntervals' = cleanup(nIntervals)
    /\ lastOp' = "unmount"
    /\ emitted' = NoSession
    /\ UNCHANGED <<timeLeft, isRunning, sessionType, sessionCount, startTime, pending, kbd>>

\* The timeout fires after the unmount: its switchSession() runs, and React
\* drops the state updates of an unmounted component.
TimeoutFiresUnmounted ==
    /\ pending # None
    /\ ~mounted
    /\ pending' = None
    /\ lastOp' = "autoSwitchUnmounted"
    /\ emitted' = NoSession
    /\ UNCHANGED <<timeLeft, isRunning, sessionType, sessionCount, startTime, mounted,
                   interval, nIntervals, kbd>>

Next ==
    \/ ClickStart /\ UNCHANGED <<observers, others>>
    \/ ClickPause /\ UNCHANGED <<observers, others>>
    \/ ClickReset /\ UNCHANGED <<observers, others>>
    \/ ClickSwitch /\ UNCHANGED <<observers, others>>
    \/ KeySpace /\ UNCHANGED <<observers, others>>
    \/ KeyR /\ UNCHANGED <<observers, others>>
    \/ KeyB /\ UNCHANGED <<observers, others>>
    \/ IntervalFires /\ UNCHANGED <<observers, others>>
    \/ TimeoutFires /\ UNCHANGED <<observers, others>>
    \/ Unmount /\ UNCHANGED <<observers, others>>
    \/ TimeoutFiresUnmounted /\ UNCHANGED <<observers, others>>

Spec == Init /\ [][Next]_vars

\* The browser runs a timeout's callback once its delay has passed.
SpecLive == Spec /\ WF_vars(TimeoutFires /\ UNCHANGED <<observers, others>>)

\* What a step of one period adds to the counts of SpecRun.
ObserveRun ==
    /\ ticks' = ticks + (IF lastOp' = "tick" THEN 1 ELSE 0)
    /\ nEvents' = nEvents + (IF emitted' # NoSession THEN 1 ELSE 0)
    /\ UNCHANGED nTransitions
    /\ UNCHANGED others

\* What a step adds to the count of SpecCadence.
ObserveCadence ==
    /\ nTransitions' = nTransitions
         + (IF sessionType = "focus" /\ sessionType' = "break" THEN 1 ELSE 0)
    /\ UNCHANGED <<ticks, nEvents>>
    /\ UNCHANGED others

\* One period run by Start/Pause alone: no reset, no switchSession (the
\* timeout of the completion stays pending).
RunNext ==
    \/ ClickStart /\ ObserveRun
    \/ ClickPause /\ ObserveRun
    \/ KeySpace /\ ObserveRun
    \/ IntervalFires /\ ObserveRun

SpecRun == Init /\ [][RunNext]_vars

\* The buttons and the timers, without the keyboard handler.
ButtonsNext ==
    \/ ClickStart /\ UNCHANGED <<observers, others>>
    \/ ClickPause /\ UNCHANGED <<observers, others>>
    \/ ClickReset /\ UNCHANGED <<observers, others>>
    \/ ClickSwitch /\ UNCHANGED <<observers, others>>
    \/ IntervalFires /\ UNCHANGED <<observers, others>>
    \/ TimeoutFires /\ UNCHANGED <<observers, others>>
    \/ Unmount /\ UNCHANGED <<observers, others>>
    \/ TimeoutFiresUnmounted /\ UNCHANGED <<observers, others>>

SpecButtons == Init /\ [][ButtonsNext]_vars

\* The buttons and the timers, with the Focus -> Break transitions counted.
CadenceNext ==
    \/ ClickStart /\ ObserveCadence
    \/ ClickPause /\ ObserveCadence
    \/ ClickReset /\ ObserveCadence
    \/ ClickSwitch /\ ObserveCadence
    \/ IntervalFires /\ ObserveCadence
    \/ TimeoutFires /\ ObserveCadence
    \/ Unmount /\ ObserveCadence
    \/ TimeoutFiresUnmounted /\ ObserveCadence

SpecCadence == Init /\ [][CadenceNext]_vars

\* The steps that ran switchSession.
SwitchOps == {"switch", "keyB", "autoSwitch"}

\* The steps that ran resetTimer.
ResetOps == {"reset", "keyR"}

\* C1: in a run of start, pause and tick from the fresh Focus state, no
\* completion event has been emitted while fewer than focusDuration ticks
\* have run, and exactly one has been emitted from the focusDuration-th tick
\* on, whatever was paused and resumed before or after it.
C1_OneCompletionAtLastTick ==
    /\ ticks <= focusDuration
    /\ nEvents = IF ticks = focusDuration THEN 1 ELSE 0

\* C1, its case: the period completed after 1500 ticks, was started and
\* paused again, and still one event has been emitted.
C1_Witness ==
    /\ ticks = focusDuration
    /\ nEvents = 1
    /\ lastOp = "pause"

\* C2: the session handed to onSessionComplete has the nominal duration of
\* its period: 1500 for a Focus period, 300 or 900 for a break.
C2_NominalDuration ==
    emitted # NoSession =>
        /\ emitted.type = "focus" => emitted.duration = focusDuration
        /\ emitted.type = "break" => emitted.duration \in {breakDuration, longBreakDuration}

\* C3: the k-th Focus -> Break transition enters a break of longBreakDuration
\* when k is a multiple of 4 and of breakDuration otherwise.
C3_EveryFourthBreakLong ==
    [][(sessionType = "focus" /\ sessionType' = "break") =>
          timeLeft' = IF nTransitions' % 4 = 0 THEN longBreakDuration ELSE breakDuration]_vars

\* C4: sessionCount changes only by a Focus -> Break transition, and then by
\* one; the automatic switch after the completion of a Focus period leaves
\* it one above what it was at the completion.
C4_OneIncrementPerFocusPeriod ==
    [][/\ sessionCount' # sessionCount =>
            /\ sessionCount' = sessionCount + 1
            /\ sessionType = "focus" /\ sessionType' = "break"
       /\ (lastOp' = "autoSwitch" /\ pending.sessionType = "focus") =>
            sessionCount' = pending.sessionCount + 1]_vars

\* C5: every run of switchSession, by a handler or by the timeout, leaves
\* sessionType the opposite of what it was just before, with timeLeft =
\* focusDuration when the new type is Focus.
C5_SwitchActsOnCurrentState ==
    [][lastOp' \in SwitchOps =>
          /\ sessionType' # sessionType
          /\ sessionType' = "focus" => timeLeft' = focusDuration]_vars

\* C6: a run of switchSession that leaves the timer in a break leaves it in
\* a long break exactly when the sessionCount it leaves is a positive
\* multiple of 4.
C6_LongBreakAtMultiplesOfFour ==
    [][(lastOp' \in SwitchOps /\ sessionType' = "break") =>
          (timeLeft' = longBreakDuration <=> (sessionCount' > 0 /\ sessionCount' % 4 = 0))
          /\ timeLeft' \in {breakDuration, longBreakDuration}]_vars

\* C7: a step hands a session to onSessionComplete exactly when it is a tick
\* that brings timeLeft to 0; no run of switchSession, of a handler or of the
\* timeout, emits one.
C7_EventsAreCompletions ==
    [][/\ emitted' # NoSession <=> (lastOp' = "tick" /\ timeLeft > 0 /\ timeLeft' = 0)
       /\ lastOp' \in SwitchOps => emitted' = NoSession]_vars

\* C7, its case: a break that was entered by a switch ran down and was reported.
C7_Witness ==
    /\ emitted # NoSession
    /\ emitted.type = "break"
    /\ lastOp = "tick"

\* C8: 0 <= timeLeft <= max(focusDuration, longBreakDuration) = 1500.
C8_TimeLeftInRange ==
    /\ 0 <= timeLeft
    /\ timeLeft <= (IF focusDuration >= longBreakDuration THEN focusDuration
                    ELSE longBreakDuration)
    /\ timeLeft <= 1500

\* C8, its case: the largest timeLeft a handler ever sets in a break, by
\* Ctrl+R of a keydown handler that was registered during Focus.
C8_Witness ==
    /\ sessionType = "break"
    /\ timeLeft = focusDuration
    /\ lastOp = "keyR"

\* C9: a step that ran switchSession leaves isRunning false, startTime unset
\* and no interval; the countdown moves only by a tick of a running timer,
\* and only a start makes the timer running.
C9_SwitchStopsTheTimer ==
    [][/\ lastOp' \in SwitchOps =>
            (~isRunning' /\ startTime' = Null /\ interval' = None)
       /\ lastOp' = "tick" => (isRunning /\ timeLeft' < timeLeft)
       /\ (isRunning' /\ ~isRunning) => lastOp' \in {"start", "keySpace"}]_vars

\* C9, its case: the automatic switch has entered a long break.
C9_Witness ==
    /\ lastOp = "autoSwitch"
    /\ sessionType = "break"
    /\ timeLeft = longBreakDuration
    /\ ~isRunning

\* C10: once the Timer is unmounted no interval and no timeout of it is
\* pending, and none of its callbacks runs.
C10_NothingPendingAfterUnmount ==
    /\ ~mounted => (interval = None /\ pending = None)
    /\ lastOp # "autoSwitchUnmounted"

\* The completing run of the interval callback when the onSessionComplete
\* it was given throws.  Nothing in the updater catches: the statements after
\* the call (toast, setTimeout, return 0) do not run, the update of timeLeft
\* fails in the render, and React, finding no error boundary in the
\* component, removes it from the tree (the effect cleanups run).
IntervalFiresConsumerThrows ==
    /\ mounted
    /\ interval # None
    /\ pending = None
    /\ completes(timeLeft)
    /\ reports(interval)
    /\ emitted' = session(interval, timeLeft)
    /\ mounted' = FALSE
    /\ interval' = None
    /\ nIntervals' = cleanup(nIntervals)
    /\ lastOp' = "tickThrows"
    /\ UNCHANGED <<timeLeft, isRunning, sessionType, sessionCount, startTime, pending, kbd>>

\* The timer with a consumer that may throw.
ThrowNext ==
    \/ Next
    \/ IntervalFiresConsumerThrows /\ UNCHANGED <<observers, others>>

SpecThrow == Init /\ [][ThrowNext]_vars

\* startTimer called while the timer runs.  The button and the shortcut
\* call pauseTimer in that state; this is the handler called as the
\* operation start() on a running timer.
StartWhileRunning ==
    /\ mounted /\ isRunning
    /\ \E d \in Dates : Render(startTimer(Closure(State), State, d))
    /\ lastOp' = "startAgain"
    /\ emitted' = NoSession
    /\ UNCHANGED <<mounted, pending>>

\* pauseTimer called while the timer does not run: the operation pause() on
\* a paused timer.
PauseWhilePaused ==
    /\ mounted /\ ~isRunning
    /\ Render(pauseTimer(State))
    /\ lastOp' = "pauseAgain"
    /\ emitted' = NoSession
    /\ UNCHANGED <<mounted, pending>>

\* The timer with its handlers callable in every state.
ApiNext ==
    \/ Next
    \/ StartWhileRunning /\ UNCHANGED <<observers, others>>
    \/ PauseWhilePaused /\ UNCHANGED <<observers, others>>

SpecApi == Init /\ [][ApiNext]_vars

\* C11: at most one interval timer is live, it is the one of the last
\* effect run, none is live while isRunning is false or after the unmount,
\* and pause, reset, switchSession and the natural completion leave none.
C11_AtMostOneInterval ==
    /\ nIntervals <= 1
    /\ nIntervals = IF interval # None THEN 1 ELSE 0
    /\ ~isRunning => nIntervals = 0
    /\ ~mounted => nIntervals = 0
    /\ lastOp \in {"pause", "reset", "keyR", "switch", "keyB", "autoSwitch"} => nIntervals = 0
    /\ (lastOp = "tick" /\ timeLeft = 0) => nIntervals = 0

\* C11, its case: the effect has run again after each of several ticks, and
\* one timer is live.
C11_Witness ==
    /\ lastOp = "tick"
    /\ timeLeft = focusDuration - 3
    /\ nIntervals = 1

\* C12: when the consumer throws, the completion step still ends as it
\* does when the consumer returns: timeLeft 0, isRunning false, the timer
\* mounted and the automatic switch scheduled.
C12_CompletionSurvivesConsumerError ==
    lastOp = "tickThrows" =>
        /\ mounted
        /\ timeLeft = 0
        /\ ~isRunning
        /\ pending # None

\* C13: in every state of the mounted timer each keyboard command leads to
\* the TimerState that the button of the same command leads to.
C13_ShortcutsEqualButtons ==
    mounted =>
        /\ \A d \in Dates :
              (IF kbd.isRunning THEN pauseTimer(State) ELSE startTimer(kbd, State, d))
                = (IF isRunning THEN pauseTimer(State)
                   ELSE startTimer(Closure(State), State, d))
        /\ resetTimer(kbd, State) = resetTimer(Closure(State), State)
        /\ switchSession(kbd, State) = switchSession(Closure(State), State)

\* C14: a step that runs resetTimer, from the button or from Ctrl+R, leaves
\* isRunning false, startTime unset, sessionType as it was and timeLeft =
\* focusDuration when sessionType is Focus, breakDuration when it is Break
\* (also in a long break).
C14_ResetRestoresDuration ==
    [][lastOp' \in {"reset", "keyR"} =>
          /\ ~isRunning'
          /\ startTime' = Null
          /\ sessionType' = sessionType
          /\ timeLeft' = IF sessionType = "focus" THEN focusDuration ELSE breakDuration]_vars

\* C15: a pause changes isRunning alone; a start leaves timeLeft as it is
\* and, when startTime is already set (a resume), leaves startTime as the
\* first start set it.  So start then pause keeps timeLeft, and pause then
\* start resumes from the same timeLeft with the same startTime.
C15_PauseResumeKeepsTimeAndStamp ==
    [][/\ (lastOp' = "pause" \/ (lastOp' = "keySpace" /\ isRunning)) =>
            /\ ~isRunning'
            /\ UNCHANGED <<timeLeft, sessionType, sessionCount, startTime>>
       /\ (lastOp' = "start" \/ (lastOp' = "keySpace" /\ ~isRunning)) =>
            /\ isRunning'
            /\ UNCHANGED <<timeLeft, sessionType, sessionCount>>
            /\ startTime # Null => startTime' = startTime]_vars

\* C15, its case: a resume at a clock reading other than the one of the
\* first start, after two ticks and a pause.
C15_Witness ==
    /\ lastOp = "start"
    /\ timeLeft = focusDuration - 2
    /\ startTime = 1
    /\ isRunning

\* C16: startTimer on a running timer changes no state cell (startTime
\* keeps its value) and leaves the one interval timer as it is.
C16_StartIdempotent ==
    [][lastOp' = "startAgain" =>
          UNCHANGED <<timeLeft, isRunning, sessionType, sessionCount, startTime,
                      interval, nIntervals, pending, kbd>>]_vars

\* C16, its case: start() on a timer that has been running for a tick.
C16_Witness ==
    /\ lastOp = "startAgain"
    /\ isRunning
    /\ timeLeft = focusDuration - 1
    /\ nIntervals = 1

\* C17: pauseTimer on a timer that does not run changes no state cell and
\* hands nothing to onSessionComplete.
C17_PauseNoOp ==
    [][lastOp' = "pauseAgain" =>
          /\ UNCHANGED <<timeLeft, isRunning, sessionType, sessionCount, startTime,
                         interval, nIntervals, pending, kbd>>
          /\ emitted' = NoSession]_vars

\* C17, its case: pause() on a timer paused in the middle of a period.
C17_Witness ==
    /\ lastOp = "pauseAgain"
    /\ ~isRunning
    /\ startTime # Null
    /\ timeLeft = focusDuration - 1

\* C18: startTime changes only from unset to a clock reading, by a start,
\* or to unset, by a reset or a switchSession; a start on unset startTime
\* sets it and every reset and switchSession clears it; the session handed
\* to onSessionComplete carries the startTime the period has had since its
\* first start.
C18_StartTimeIsFirstStart ==
    [][/\ startTime' # startTime =>
            \/ startTime = Null /\ lastOp' \in {"start", "keySpace"}
            \/ startTime' = Null /\ lastOp' \in {"reset", "keyR"} \cup SwitchOps
       /\ (startTime = Null /\ (lastOp' = "start" \/ (lastOp' = "keySpace" /\ ~isRunning))) =>
            startTime' \in Dates
       /\ lastOp' \in {"reset", "keyR"} \cup SwitchOps => startTime' = Null
       /\ emitted' # NoSession =>
            (startTime # Null /\ emitted'.timestamp = startTime /\ startTime' = startTime)]_vars

\* C18, its case: a completed period is reported with the reading of its start.
C18_Witness ==
    /\ lastOp = "tick"
    /\ emitted # NoSession
    /\ emitted.type = "focus"
    /\ emitted.timestamp = 2
    /\ startTime = 2

\* C19: from every state of the mounted timer two button presses lead to a
\* Focus period that counts down and two to a Break period that counts
\* down: Reset or Switch (whichever gives the wanted type), then Start.
C19_NoTerminalState ==
    mounted =>
        \A d \in Dates :
            LET stay == resetTimer(Closure(State), State)
                flip == switchSession(Closure(State), State)
                f == IF sessionType = "focus" THEN stay ELSE flip
                b == IF sessionType = "focus" THEN flip ELSE stay
                runF == startTimer(Closure(f), f, d)
                runB == startTimer(Closure(b), b, d)
            IN  /\ runF.sessionType = "focus" /\ ticking(runF)
                /\ runB.sessionType = "break" /\ ticking(runB)

\* C19, its case: Start was pressed between a natural completion and the
\* automatic switch: the timer shows running at 0 and has no interval.
C19_Witness ==
    /\ mounted
    /\ pending # None
    /\ timeLeft = 0
    /\ isRunning
    /\ nIntervals = 0

\* C20, the steps: a tick that ends a period leaves timeLeft = 0 and the
\* period's sessionType, emits the event and schedules one switch; the
\* event is emitted by that tick only, which leaves sessionType alone; until
\* a switch or a reset, timeLeft stays 0 and sessionType stays that of the
\* completed period; a scheduled switch is never replaced, and the automatic
\* switch runs only when one is scheduled and consumes it.
C20_Step ==
    /\ (lastOp' = "tick" /\ timeLeft' = 0) =>
           /\ pending = None
           /\ pending' # None
           /\ pending'.sessionType = sessionType
           /\ emitted' # NoSession
    /\ (pending = None /\ pending' # None) =>
           /\ lastOp' = "tick"
           /\ timeLeft' = 0
           /\ sessionType' = sessionType
    /\ emitted' # NoSession =>
           /\ lastOp' = "tick"
           /\ pending' # None
           /\ sessionType' = sessionType
    /\ ( /\ pending # None
         /\ timeLeft = 0
         /\ sessionType = pending.sessionType
         /\ lastOp' \notin SwitchOps \cup {"reset", "keyR"} ) =>
           /\ timeLeft' = 0
           /\ sessionType' = sessionType
    /\ pending # None => pending' \in {pending, None}
    /\ lastOp' = "autoSwitch" =>
           /\ pending # None
           /\ pending' = None
           /\ emitted' = NoSession

\* C20: after a natural completion the automatic switch fires, once, unless
\* the Timer is unmounted first; from the completion to a switch or reset
\* the state is timeLeft = 0 with the completed period's sessionType; the
\* event is emitted before the automatic switch.
C20_DeferredSwitchFiresOnce ==
    /\ [][C20_Step]_vars
    /\ (mounted /\ pending # None) ~> (lastOp = "autoSwitch" \/ ~mounted)

\* C20, its case: the automatic switch has fired and has entered a short
\* break, the second Focus -> Break transition of the timer.
C20_Witness ==
    /\ mounted
    /\ lastOp = "autoSwitch"
    /\ pending = None
    /\ sessionType = "break"
    /\ timeLeft = breakDuration
    /\ sessionCount = 2


\* C21: a tick runs only while isRunning and takes exactly 1 off timeLeft;
\* every other change of timeLeft is made by resetTimer or switchSession, so
\* while the timer does not run timeLeft changes through these two only.
C21_CountdownOnlyByTicks ==
    [][/\ lastOp' = "tick" => (isRunning /\ timeLeft' = timeLeft - 1)
       /\ timeLeft' # timeLeft => lastOp' \in {"tick"} \cup ResetOps \cup SwitchOps
       /\ (~isRunning /\ timeLeft' # timeLeft) => lastOp' \in ResetOps \cup SwitchOps]_vars

\* C21, its case: a tick of a running break has taken one second off.
C21_Witness ==
    /\ lastOp = "tick"
    /\ isRunning
    /\ sessionType = "break"
    /\ timeLeft = breakDuration - 1


\* C22: the progress shown lies between 0 and 100 percent, that is, 0 <=
\* timeLeft <= the total getProgress derives from sessionType and
\* sessionCount, and right after a run of switchSession timeLeft equals that
\* total (progress 0).
C22_ProgressInRange ==
    /\ 0 <= getProgress /\ getProgress <= 100
    /\ 0 <= timeLeft /\ timeLeft <= totalTime(sessionType, sessionCount)
    /\ lastOp \in SwitchOps => timeLeft = totalTime(sessionType, sessionCount)


\* C23: whenever the timer runs startTime is set, in the state and in what
\* the interval callback captured; so every tick that brings timeLeft to 0
\* finds startTime set and hands a session with that timestamp to
\* onSessionComplete.
C23_RunningHasStartTime ==
    /\ [](isRunning => startTime # Null)
    /\ [](interval # None => interval.startTime = startTime)
    /\ [][(lastOp' = "tick" /\ timeLeft' = 0) =>
             /\ startTime # Null
             /\ emitted' # NoSession
             /\ emitted'.timestamp = startTime]_vars

\* C23, its case: a Focus period that followed a break ran to its end and
\* was reported with the time of its first start.
C23_Witness ==
    /\ lastOp = "tick"
    /\ timeLeft = 0
    /\ sessionCount = 1
    /\ emitted.type = "focus"
    /\ emitted.timestamp \in Dates
    /\ emitted.timestamp = startTime


\* C24: whenever the timer shows running the countdown is above 0, and so
\* a tick is scheduled.
C24_RunningAboveZero ==
    (mounted /\ isRunning) => (timeLeft > 0 /\ interval # None)


\* C25: a reset and a pause leave sessionType and sessionCount as they were
\* and hand nothing to onSessionComplete; a start leaves timeLeft,
\* sessionType and sessionCount as they were; a tick that does not end the
\* period changes timeLeft and no other state cell.
C25_Frames ==
    [][/\ ( \/ lastOp' \in ResetOps \cup {"pause", "pauseAgain"}
            \/ (lastOp' = "keySpace" /\ kbd.isRunning) ) =>
             /\ sessionType' = sessionType
             /\ sessionCount' = sessionCount
             /\ emitted' = NoSession
       /\ ( \/ lastOp' \in {"start", "startAgain"}
            \/ (lastOp' = "keySpace" /\ ~kbd.isRunning) ) =>
             /\ timeLeft' = timeLeft
             /\ sessionType' = sessionType
             /\ sessionCount' = sessionCount
       /\ (lastOp' = "tick" /\ timeLeft' # 0) =>
             /\ timeLeft' # timeLeft
             /\ isRunning' = isRunning
             /\ sessionType' = sessionType
             /\ sessionCount' = sessionCount
             /\ startTime' = startTime
             /\ emitted' = NoSession]_vars

\* C25, its case: a long break was reset: it is still a break and
\* sessionCount is still 4.
C25_Witness ==
    /\ lastOp = "reset"
    /\ sessionType = "break"
    /\ sessionCount = 4
    /\ timeLeft = breakDuration
    /\ ~isRunning


\* ---- Dashboard: mount sequence and session log ----

\* What a Dashboard step leaves alone.
besideLog == <<timerVars, observers, isTimerRunning, dashSessionType, currentPlaylist,
               taskVars, analyticsVars>>

\* Dashboard has rendered for the first time over whatever an earlier visit
\* left in localStorage; its effects have not run yet.
InitDashboard ==
    /\ TimerInit
    /\ DashboardCells
    /\ MusicInit
    /\ TasksInit
    /\ AnalyticsIdle
    /\ sessions = <<>>
    /\ storage \in {Absent} \cup {stringify(l) : l \in SessionLists(MaxSessions)}
    /\ dashPhase = "rendered"
    /\ queued = NoUpdate
    /\ stored0 = storage
    /\ received = NoSession
    /\ dashOp = "render"

\* The load effect: getItem, and setSessions of the parsed list if there is one.
LoadEffect ==
    /\ dashPhase = "rendered"
    /\ queued' = IF storage.present THEN [set |-> TRUE, value |-> parse(storage)]
                 ELSE NoUpdate
    /\ dashPhase' = "loaded"
    /\ dashOp' = "load"
    /\ UNCHANGED <<sessions, storage, stored0, received, besideLog>>

\* The save effect of the first render: it writes the empty list of that
\* render.  With no update queued the mount is over.
SaveEffect ==
    /\ dashPhase = "loaded"
    /\ storage' = stringify(sessions)
    /\ dashPhase' = IF queued.set THEN "saved" ELSE "ready"
    /\ dashOp' = "save"
    /\ UNCHANGED <<sessions, queued, stored0, received, besideLog>>

\* The re-render for the queued setSessions and the save effect that its
\* new sessions value triggers.
Commit ==
    /\ dashPhase = "saved"
    /\ queued.set
    /\ sessions' = queued.value
    /\ storage' = stringify(queued.value)
    /\ queued' = NoUpdate
    /\ dashPhase' = "ready"
    /\ dashOp' = "commit"
    /\ UNCHANGED <<stored0, received, besideLog>>

\* The Timer calls onSessionComplete = handleSessionComplete; the re-render
\* runs the save effect.
SessionCompletes ==
    /\ dashPhase = "ready"
    /\ Len(sessions) < MaxSessions
    /\ \E s \in SessionValues :
          /\ sessions' = handleSessionComplete(sessions, s)
          /\ storage' = stringify(handleSessionComplete(sessions, s))
          /\ received' = s
    /\ dashOp' = "complete"
    /\ UNCHANGED <<dashPhase, queued, stored0, besideLog>>

\* The page is loaded again: a new Dashboard renders over the stored item.
Reload ==
    /\ dashPhase = "ready"
    /\ sessions' = <<>>
    /\ queued' = NoUpdate
    /\ stored0' = storage
    /\ dashPhase' = "rendered"
    /\ received' = NoSession
    /\ dashOp' = "render"
    /\ UNCHANGED <<storage, besideLog>>

DashboardNext ==
    \/ LoadEffect
    \/ SaveEffect
    \/ Commit
    \/ SessionCompletes
    \/ Reload

SpecDashboard == InitDashboard /\ [][DashboardNext]_vars

\* C26: a completion event appends its session at the end of sessions and
\* leaves the earlier entries as they were; once the mount sequence is over,
\* and after every completion, the stored item is the JSON of sessions; and
\* the mount sequence ends with every session that was stored before it, in
\* order, in sessions and in the stored item.
C26_LogAppendOnlyAndDurable ==
    /\ [][dashOp' = "complete" =>
             /\ Len(sessions') = Len(sessions) + 1
             /\ SubSeq(sessions', 1, Len(sessions)) = sessions
             /\ sessions'[Len(sessions')] = received']_vars
    /\ [](dashPhase = "ready" => storage = stringify(sessions))
    /\ []((dashPhase = "ready" /\ stored0.present) =>
             /\ Len(sessions) >= Len(stored0.items)
             /\ stringify(SubSeq(sessions, 1, Len(stored0.items))) = stored0
             /\ SubSeq(storage.items, 1, Len(stored0.items)) = stored0.items)

\* C26, its case: a mount found one stored session, and a completion has
\* added a second one after it.
C26_Witness ==
    /\ dashOp = "complete"
    /\ stored0.present
    /\ Len(stored0.items) = 1
    /\ Len(sessions) = 2
    /\ sessions[2] = received


\* ---- The focus tab: Timer and MusicControls side by side ----

\* The playlist Select of MusicControls: its items are the playlists of the
\* sessionType prop, onValueChange = setCurrentPlaylist; the auto-switch
\* effect runs on the re-render.
SelectPlaylist ==
    /\ mounted
    /\ \E p \in playlists(dashSessionType) :
          /\ p # currentPlaylist
          /\ currentPlaylist' = autoSwitchPlaylist(dashSessionType, p)
    /\ UNCHANGED <<timerVars, observers, dashboardVars, taskVars, analyticsVars>>

\* The buttons and timers of the Timer, and the playlist Select beside it.
\* MusicControls gets Dashboard's sessionType and isTimerRunning cells as
\* props; no Timer step writes them.
FocusTabNext ==
    \/ ButtonsNext
    \/ SelectPlaylist

SpecFocusTab == Init /\ [][FocusTabNext]_vars

\* C27: the sessionType and isTimerRunning that MusicControls is given equal
\* the Timer's sessionType and isRunning, and the selected playlist belongs
\* to the set of the Timer's session type.
C27_MusicFollowsTimer ==
    mounted =>
        /\ dashSessionType = sessionType
        /\ isTimerRunning = isRunning
        /\ currentPlaylist \in playlists(sessionType)


\* ---- TaskManager ----

\* What a TaskManager step leaves alone.
besideTasks == <<timerVars, observers, dashboardVars, currentPlaylist, analyticsVars>>

\* The title input: onChange = setNewTaskTitle(e.target.value).
TypeTitle ==
    /\ \E t \in Titles :
          /\ t # newTaskTitle
          /\ newTaskTitle' = t
    /\ taskOp' = [op |-> "type", id |-> 0]
    /\ notified' = <<>>
    /\ UNCHANGED <<tasks, nextId, besideTasks>>

\* The Add button or Enter in the title input: addTask().  A blank title
\* returns before anything is written; otherwise crypto.randomUUID() gives
\* an id no task has, and the input is cleared.
AddTask ==
    /\ trim(newTaskTitle) # <<>> => nextId <= MaxTasks
    /\ tasks' = addTask(tasks, newTaskTitle, "code", nextId)
    /\ newTaskTitle' = IF trim(newTaskTitle) = <<>> THEN newTaskTitle ELSE <<>>
    /\ nextId' = IF trim(newTaskTitle) = <<>> THEN nextId ELSE nextId + 1
    /\ taskOp' = [op |-> "add", id |-> 0]
    /\ notified' = <<>>
    /\ UNCHANGED besideTasks

\* The checkbox of a listed task: toggleTask(task.id).
ToggleTask ==
    /\ \E i \in 1..Len(tasks), d \in Dates :
          /\ tasks' = toggleTask(tasks, tasks[i].id, d)
          /\ notified' = toggleCalls(tasks, tasks[i].id, d)
          /\ taskOp' = [op |-> "toggle", id |-> tasks[i].id]
    /\ UNCHANGED <<newTaskTitle, nextId, besideTasks>>

\* The delete button of a listed task: deleteTask(task.id).
DeleteTask ==
    /\ \E i \in 1..Len(tasks) :
          /\ tasks' = deleteTask(tasks, tasks[i].id)
          /\ taskOp' = [op |-> "delete", id |-> tasks[i].id]
    /\ notified' = <<>>
    /\ UNCHANGED <<newTaskTitle, nextId, besideTasks>>

TasksNext ==
    \/ TypeTitle
    \/ AddTask
    \/ ToggleTask
    \/ DeleteTask

SpecTasks == Init /\ [][TasksNext]_vars

\* C28: the completed and the active tasks add up to the total, which is
\* the number of tasks; a task has completedAt exactly when it is completed;
\* addTask with a blank title changes nothing; toggleTask changes the
\* completed and completedAt of the task with the given id and nothing
\* else, and calls onTaskComplete, once and with the updated task, exactly
\* when that task goes from not completed to completed; no other handler
\* calls it.
C28_TaskListConsistent ==
    /\ [](stats.completed + stats.active = stats.total /\ stats.total = Len(tasks))
    /\ [](\A i \in 1..Len(tasks) : (tasks[i].completedAt # Null) <=> tasks[i].completed)
    /\ [][/\ (taskOp'.op = "add" /\ trim(newTaskTitle) = <<>>) =>
                (tasks' = tasks /\ newTaskTitle' = newTaskTitle /\ nextId' = nextId)
          /\ taskOp'.op = "toggle" =>
                /\ Len(tasks') = Len(tasks)
                /\ \A i \in 1..Len(tasks) :
                      IF tasks[i].id = taskOp'.id
                      THEN /\ tasks'[i].id = tasks[i].id
                           /\ tasks'[i].title = tasks[i].title
                           /\ tasks'[i].completed = ~tasks[i].completed
                           /\ notified' = IF tasks[i].completed THEN <<>> ELSE <<tasks'[i]>>
                      ELSE tasks'[i] = tasks[i]
          /\ taskOp'.op # "toggle" => notified' = <<>>]_vars

\* C28, its case: of two tasks the one added last has just been completed
\* and reported.
C28_Witness ==
    /\ taskOp.op = "toggle"
    /\ Len(tasks) = 2
    /\ tasks[1].completed
    /\ ~tasks[2].completed
    /\ notified = <<tasks[1]>>
    /\ stats = [total |-> 2, completed |-> 1, active |-> 1]


\* ---- Analytics: the streak loop of the mount effect ----

\* The sessions an earlier visit can have stored: any type, any instant.
StoredValues ==
    {[type |-> ty, duration |-> totalTime(ty, 1) - 1, timestamp |-> t] :
        ty \in {"focus", "break"}, t \in Instants}

\* The stored session lists of up to n entries.
StoredLists(n) == UNION {[1..k -> StoredValues] : k \in 0..n}

\* The Analytics tab is opened in a mounted Dashboard: the effect has read
\* the stored item (JSON.parse, timestamps still ISO strings) and the clock,
\* and is about to enter the loop.
InitAnalytics ==
    /\ TimerInit
    /\ DashboardCells
    /\ MusicInit
    /\ TasksInit
    /\ \E l \in StoredLists(MaxStored) :
          /\ sessions = l
          /\ storage = stringify(l)
          /\ stored0 = stringify(l)
          /\ allSessions = stringify(l).items
    /\ dashPhase = "ready"
    /\ queued = NoUpdate
    /\ received = NoSession
    /\ dashOp = "mount"
    /\ today \in Instants
    /\ checkDate = today
    /\ streak = 0
    /\ pc = "loop"

\* One pass of while (true): setHours, hasSessionOnDate, then streak++ and
\* the day before, or break.  A pass that counts needs a session of its
\* own, so the counter is capped by the length of the list.
StreakIteration ==
    /\ pc = "loop"
    /\ IF hasSessionOnDate(allSessions, setHours0(checkDate))
       THEN /\ streak <= Len(allSessions)
            /\ streak' = streak + 1
            /\ checkDate' = prevDay(setHours0(checkDate))
            /\ pc' = "loop"
       ELSE /\ streak' = streak
            /\ checkDate' = setHours0(checkDate)
            /\ pc' = "done"
    /\ UNCHANGED <<allSessions, today, timerVars, observers, dashboardVars,
                   currentPlaylist, taskVars>>

\* The effect runs to its end once it has started.
SpecStreak == InitAnalytics /\ [][StreakIteration]_vars /\ WF_vars(StreakIteration)

\* C29: the streak loop ends, and when it has ended streak is the number k
\* of calendar days, today and the k - 1 days before it, that each hold the
\* timestamp of a focus session, the day before them holding none; it is 0
\* when no focus session has its timestamp today.
C29_StreakTerminatesAndCounts ==
    /\ <>(pc = "done")
    /\ [](pc = "done" =>
            LET day(t) == t \div DayLength
                focusDays == {day(newDate(allSessions[i].timestamp)) :
                                 i \in {j \in 1..Len(allSessions) :
                                           allSessions[j].type = "focus"}}
            IN  /\ \A j \in 0..(streak - 1) : day(today) - j \in focusDays
                /\ day(today) - streak \notin focusDays
                /\ streak >= 0
                /\ day(today) \notin focusDays => streak = 0)

\* C29, its case: focus sessions today and yesterday, none the day before:
\* the loop has ended with 2.
C29_Witness ==
    /\ pc = "done"
    /\ streak = 2
    /\ Len(allSessions) = 2
    /\ today >= 2 * DayLength

====
